---- MODULE Spec2Model ----
(***************************************************************************)
(* The one-time secret store of src/Disposable_secrets.py: the process-wide *)
(* dict memory_cache, the three request handlers create_secret, get_secret  *)
(* and delete_secret, the audit call log_action each of them awaits, and    *)
(* the background loop cleanup_expired.                                     *)
(*                                                                         *)
(* The handlers are asyncio coroutines on one event loop: the code of a     *)
(* handler between two awaits runs with nothing interleaved.  Each handler  *)
(* has exactly one await, the call of log_action, so a handler is two       *)
(* steps: its synchronous part up to the await (or up to the HTTPException  *)
(* it raises before it), and its resumption when log_action returns or      *)
(* raises.  log_action is the audit database: it may return, raise, or      *)
(* never complete.                                                          *)
(***************************************************************************)
EXTENDS Integers, Sequences, FiniteSets, TLC

\* ------------------------------------------------------------------ bounds

\* The clock datetime.utcnow() runs over 0..MaxTime.
MaxTime == 2

\* Values uuid4() may return (the identifier space, 2^122 values in the code).
Ids == {"u1", "u2"}

\* Concurrent callers (connections with a request in flight).
Clients == {"c1", "c2"}

\* ------------------------------------------------- Python values and idioms

\* Optional[T]: None, or a value v carried as <<v>>.
None == <<>>
Some(v) == <<v>>

\* ttl_seconds default of SecretCreate, and the fallback of `ttl_seconds or 3600`.
DEFAULT_TTL == 3600

\* Passphrases a caller may send to DELETE (Optional[str], "" included).
Passphrases == {None, Some(""), Some("p1"), Some("p2")}

\* Python truthiness of an Optional[str]: None and "" are falsy.
TruthyStr(o) == o # None /\ o[1] # ""

\* Python truthiness of an Optional[int]: None and 0 are falsy.
TruthyInt(o) == o # None /\ o[1] # 0

\* Integer ttl_seconds a caller may send in the body (unconstrained ints).
TtlValues == {Some(-1), Some(0), Some(1)}

\* The int n * 10^12, which pydantic accepts for ttl_seconds like any other
\* int; it is kept as a mantissa with its scale, being wider than the integers
\* the model computes with.
Tera(n) == <<n, "e12">>

\* ttl_seconds so far from zero that utcnow() + timedelta(seconds=ttl) leaves
\* the years 1..9999 of datetime.
HugeTtlValues == {Tera(1), Tera(-1)}

\* A str holding a lone surrogate (JSON "\ud800"), which has no UTF-8 bytes.
LoneSurrogate == "lone surrogate U+D800"

\* Secret and passphrase of the usual request bodies of POST /secret.
Payloads ==
    { [secret |-> "hello", passphrase |-> None],
      [secret |-> "x", passphrase |-> Some("p1")] }

\* The request bodies callers send: the payloads with each ttl_seconds and with
\* ttl_seconds left out, one body with "ttl_seconds": null, one with the
\* empty string as its passphrase, one with each huge ttl_seconds, and one
\* whose secret cannot be encoded.
Bodies ==
    { [secret |-> p.secret, passphrase |-> p.passphrase, ttl_seconds |-> t] :
        p \in Payloads, t \in TtlValues }
    \cup Payloads
    \cup { [secret |-> "hello", passphrase |-> None, ttl_seconds |-> None],
           [secret |-> "hello", passphrase |-> Some("")] }
    \cup { [secret |-> "hello", passphrase |-> None, ttl_seconds |-> t] :
             t \in HugeTtlValues }
    \cup { [secret |-> LoneSurrogate, passphrase |-> None] }

\* class SecretCreate: pydantic fills the default of a field left out.
SecretCreate(body) ==
    [secret |-> body.secret,
     passphrase |-> body.passphrase,
     ttl_seconds |-> IF "ttl_seconds" \in DOMAIN body
                       THEN body.ttl_seconds ELSE Some(DEFAULT_TTL)]

\* ------------------------------------------------------------ crypto envelope

\* str.encode() raises UnicodeEncodeError for a lone surrogate.
EncodeRaises(s) == s = LoneSurrogate

\* str.encode(): the UTF-8 bytes of a string.
encode(s) == <<"utf8", s>>

\* bytes.decode().
decode(b) == b[2]

\* fernet.encrypt(bytes): a Fernet token, never the bytes themselves.
fernet_encrypt(b) == <<"fernet", b>>

\* fernet.decrypt(token).
fernet_decrypt(t) == t[2]

\* ------------------------------------------------------------- store helpers

\* datetime.utcnow() + timedelta(seconds=data.ttl_seconds or 3600) raises
\* OverflowError when the sum is no datetime: 10^12 seconds and more, either
\* way, from any instant t of the clock.
DatetimeOverflows(t, ttl) == TruthyInt(ttl) /\ Len(ttl) = 2

\* data.ttl_seconds or 3600
TtlOrDefault(ttl) == IF TruthyInt(ttl) THEN ttl[1] ELSE DEFAULT_TTL

\* expires_at = datetime.utcnow() + timedelta(seconds=data.ttl_seconds or 3600)
ExpiresAt(t, ttl) == t + TtlOrDefault(ttl)

\* create_secret raises before it stores anything: in line 81 or in line 82.
CreateRaises(data, t) ==
    EncodeRaises(data.secret) \/ DatetimeOverflows(t, data.ttl_seconds)

\* Mutant of NewRecord: the payload is stored as received.
NewRecord_Plaintext(data, t) ==
    [secret |-> encode(data.secret),
     passphrase |-> data.passphrase,
     expires_at |-> ExpiresAt(t, data.ttl_seconds)]

\* The dict create_secret stores under the key.
NewRecord(data, t) ==
    [secret |-> fernet_encrypt(encode(data.secret)),
     passphrase |-> data.passphrase,
     expires_at |-> ExpiresAt(t, data.ttl_seconds)]

\* memory_cache[key] = value
CacheSet(cache, key, value) ==
    [k \in DOMAIN cache \cup {key} |-> IF k = key THEN value ELSE cache[k]]

\* Mutant of CachePop: the key is read with get() and stays in the dict.
CachePop_Keeps(cache, key) == cache

\* The dict left by memory_cache.pop(key).
CachePop(cache, key) == [k \in DOMAIN cache \ {key} |-> cache[k]]

\* Mutant of CachePopAll: the pass forgets its pops.
CachePopAll_Keeps(cache, keys) == cache

\* The dict left by popping every key of a list.
CachePopAll(cache, keys) == [k \in DOMAIN cache \ keys |-> cache[k]]

\* memory_cache.pop(key), with no default, raises KeyError for a missing key.
PopRaises(cache, key) == key \notin DOMAIN cache

\* `if not secret_data`: the key is missing (a stored dict is never empty).
Missing(cache, key) == key \notin DOMAIN cache

\* datetime.utcnow() > secret_data["expires_at"]
\* Mutant of IsExpired: a record counts as expired from expires_at on.
IsExpired_Inclusive(rec, t) == t >= rec.expires_at

IsExpired(rec, t) == t > rec.expires_at

\* secret_data["passphrase"] and secret_data["passphrase"] != passphrase
GateDenies(rec, passphrase) ==
    TruthyStr(rec.passphrase) /\ rec.passphrase # passphrase

\* to_delete = [key for key, val in memory_cache.items() if val["expires_at"] < now]
\* Mutant of ToDelete: a record is also swept at the instant it expires.
ToDelete_Inclusive(cache, t) == {k \in DOMAIN cache : cache[k].expires_at <= t}

ToDelete(cache, t) == {k \in DOMAIN cache : cache[k].expires_at < t}

\* Mutant of GetOutcome: no expiry check, the sweeper alone enforces expiry.
GetOutcome_NoExpiryCheck(cache, key, t) ==
    IF Missing(cache, key) THEN "NotFound" ELSE "ok"

\* What get_secret decides before its await.
GetOutcome(cache, key, t) ==
    IF Missing(cache, key) THEN "NotFound"
    ELSE IF IsExpired(cache[key], t) THEN "Expired"
    ELSE "ok"

\* Mutant of DeleteOutcome: the 404 test after memory_cache.get is left out.
DeleteOutcome_SkipsLookup(cache, key, passphrase) ==
    IF Missing(cache, key) THEN "ok"
    ELSE IF GateDenies(cache[key], passphrase) THEN "PassphraseMismatch"
    ELSE "ok"

\* What delete_secret decides before its await.
DeleteOutcome(cache, key, passphrase) ==
    IF Missing(cache, key) THEN "NotFound"
    ELSE IF GateDenies(cache[key], passphrase) THEN "PassphraseMismatch"
    ELSE "ok"

\* ---------------------------------------------------------------- responses

\* A response: its kind, its body, and (history) the identifier the answered
\* request created, fetched or deleted.
NoResp == [kind |-> "none", of |-> "", val |-> ""]
\* return {"secret_key": secret_key}
RespCreated(key) == [kind |-> "created", of |-> key, val |-> key]
\* return {"secret": decrypted}
RespSecret(key, p) == [kind |-> "secret", of |-> key, val |-> p]
\* return {"status": "secret_deleted"}
RespDeleted(key) == [kind |-> "deleted", of |-> key, val |-> "secret_deleted"]
\* HTTPException: 404 NotFound, 410 Expired, 403 PassphraseMismatch
RespError(kind) == [kind |-> kind, of |-> "", val |-> ""]
\* An exception other than HTTPException leaves the handler (the one of
\* log_action, of encode(), of the datetime sum, of pop()): the caller gets a 500.
RespServerError == [kind |-> "ServerError", of |-> "", val |-> ""]

\* -------------------------------------------------------------------- state

VARIABLES
    memory_cache,   \* the dict memory_cache: identifier -> stored record
    now,            \* the value datetime.utcnow() returns
    calls,          \* per caller: the request in flight or the last response
    winners,        \* history: calls that found the record under a key and removed it
    removedBy,      \* history: which call removed the record last stored under a key
    sweeper         \* the coroutine cleanup_expired: "running", or "stopped" by an exception

vars == <<memory_cache, now, calls, winners, removedBy, sweeper>>

\* A caller with no request made yet.
IdleCall ==
    [pc |-> "idle", op |-> "none", key |-> "", data |-> None, resp |-> NoResp]

\* A handler that has answered: raised its HTTPException or returned.
Done(resp) ==
    [pc |-> "done", op |-> "none", key |-> "", data |-> None, resp |-> resp]

\* A handler suspended in `await log_action(...)`; data is the part of its
\* local secret_data it uses after the await.
Awaiting(op, key, data) ==
    [pc |-> "log", op |-> op, key |-> key, data |-> data, resp |-> NoResp]

\* A caller may send a request when it has none in flight.
CanCall(c) == calls[c].pc \in {"idle", "done"}

\* History: a call found a record under each of keys and removed it.
NoteRemoval(keys, how) ==
    /\ winners' = [k \in Ids |-> IF k \in keys /\ winners[k] < 2
                                   THEN winners[k] + 1 ELSE winners[k]]
    /\ removedBy' = [k \in Ids |-> IF k \in keys THEN how ELSE removedBy[k]]

\* History: the call removed nothing.
NoRemoval == UNCHANGED <<winners, removedBy>>

Init ==
    /\ memory_cache = [k \in {} |-> None]
    /\ now = 0
    /\ calls = [c \in Clients |-> IdleCall]
    /\ winners = [k \in Ids |-> 0]
    /\ removedBy = [k \in Ids |-> "none"]
    /\ sweeper = "running"

\* ------------------------------------------------------------------ actions

\* create_secret up to its await, or up to the exception of line 81 or 82,
\* which leaves the store as it was: key is the value uuid4() returned.
create_secret(c, key, body) ==
    LET data == SecretCreate(body)
        raises == CreateRaises(data, now)
    IN
    /\ CanCall(c)
    /\ memory_cache' = IF raises THEN memory_cache
                       ELSE CacheSet(memory_cache, key, NewRecord(data, now))
    /\ calls' = [calls EXCEPT ![c] =
                   IF raises THEN Done(RespServerError)
                   ELSE Awaiting("create", key, None)]
    /\ winners' = IF raises THEN winners ELSE [winners EXCEPT ![key] = 0]
    /\ removedBy' = IF raises THEN removedBy ELSE [removedBy EXCEPT ![key] = "none"]
    /\ UNCHANGED <<now, sweeper>>

\* Mutant of get_secret: the expiry check comes before the removal, so an
\* expired record is refused and left in the dict.
get_secret_CheckBeforePop(c, key) ==
    LET outcome == GetOutcome(memory_cache, key, now) IN
    /\ CanCall(c)
    /\ memory_cache' = IF outcome = "ok" THEN CachePop(memory_cache, key)
                                         ELSE memory_cache
    /\ calls' = [calls EXCEPT ![c] =
                   IF outcome = "ok"
                     THEN Awaiting("get", key, memory_cache[key].secret)
                     ELSE Done(RespError(outcome))]
    /\ IF outcome = "ok" THEN NoteRemoval({key}, "get") ELSE NoRemoval
    /\ UNCHANGED <<now, sweeper>>

\* get_secret up to its await, or up to the HTTPException it raises.
get_secret(c, key) ==
    LET outcome == GetOutcome(memory_cache, key, now) IN
    /\ CanCall(c)
    /\ memory_cache' = CachePop(memory_cache, key)
    /\ calls' = [calls EXCEPT ![c] =
                   IF outcome = "ok"
                     THEN Awaiting("get", key, memory_cache[key].secret)
                     ELSE Done(RespError(outcome))]
    /\ IF outcome = "NotFound"
         THEN NoRemoval
         ELSE NoteRemoval({key}, IF outcome = "ok" THEN "get" ELSE "get_expired")
    /\ UNCHANGED <<now, sweeper>>

\* delete_secret up to its await, or up to the exception it raises: the
\* HTTPException of the lookup or of the gate, or the KeyError of pop().
delete_secret(c, key, passphrase) ==
    LET outcome == DeleteOutcome(memory_cache, key, passphrase)
        removes == outcome = "ok" /\ ~PopRaises(memory_cache, key)
    IN
    /\ CanCall(c)
    /\ memory_cache' = IF removes THEN CachePop(memory_cache, key)
                                  ELSE memory_cache
    /\ calls' = [calls EXCEPT ![c] =
                   IF removes THEN Awaiting("delete", key, None)
                   ELSE IF outcome = "ok" THEN Done(RespServerError)
                   ELSE Done(RespError(outcome))]
    /\ IF removes
         THEN NoteRemoval({key}, IF IsExpired(memory_cache[key], now)
                                   THEN "delete_expired" ELSE "delete")
         ELSE NoRemoval
    /\ UNCHANGED <<now, sweeper>>

\* What the handler returns once log_action has returned.
Resume(call) ==
    CASE call.op = "create" -> RespCreated(call.key)
      [] call.op = "get" -> RespSecret(call.key, decode(fernet_decrypt(call.data)))
      [] call.op = "delete" -> RespDeleted(call.key)

\* log_action returns: the handler runs to its return statement.
log_action_returns(c) ==
    /\ calls[c].pc = "log"
    /\ calls' = [calls EXCEPT ![c] = Done(Resume(calls[c]))]
    /\ UNCHANGED <<memory_cache, now, winners, removedBy, sweeper>>

\* log_action raises (db.execute fails): nothing catches it in the handler.
log_action_raises(c) ==
    /\ calls[c].pc = "log"
    /\ calls' = [calls EXCEPT ![c] = Done(RespServerError)]
    /\ UNCHANGED <<memory_cache, now, winners, removedBy, sweeper>>

\* One pass of the loop of cleanup_expired, between two sleeps; a KeyError of
\* one of its pops would end the loop.
cleanup_expired ==
    LET to_delete == ToDelete(memory_cache, now) IN
    /\ sweeper = "running"
    /\ memory_cache' = CachePopAll(memory_cache, to_delete)
    /\ NoteRemoval(to_delete \cap DOMAIN memory_cache, "sweep")
    /\ sweeper' = IF \E k \in to_delete : PopRaises(memory_cache, k)
                    THEN "stopped" ELSE "running"
    /\ UNCHANGED <<now, calls>>

\* Time passes.
Tick ==
    /\ now < MaxTime
    /\ now' = now + 1
    /\ UNCHANGED <<memory_cache, calls, winners, removedBy, sweeper>>

Next ==
    \/ \E c \in Clients, key \in Ids, body \in Bodies : create_secret(c, key, body)
    \/ \E c \in Clients, key \in Ids : get_secret(c, key)
    \/ \E c \in Clients, key \in Ids, passphrase \in Passphrases :
           delete_secret(c, key, passphrase)
    \/ \E c \in Clients : log_action_returns(c)
    \/ \E c \in Clients : log_action_raises(c)
    \/ cleanup_expired
    \/ Tick

Spec == Init /\ [][Next]_vars

\* The event loop keeps running the sweeper loop and the clock keeps going; when
\* the audit database answers is not up to the program, so no fairness on it.
FairSpec == Spec /\ WF_vars(cleanup_expired) /\ WF_vars(Tick)

\* --------------------------------------------------------------- claims

\* Some caller's step in this transition is a Fetch or a Delete on key.
FetchOrDelete(c, key) ==
    \/ get_secret(c, key)
    \/ \E passphrase \in Passphrases : delete_secret(c, key, passphrase)

\* C1 (single delivery): of the Fetch, Delete and Sweep calls that race on the
\* record stored under an identifier, at most one finds the record present and
\* removes it, the record is gone once one has, and every Fetch or Delete that
\* runs on the identifier after that removal observes NotFound and removes
\* nothing.
C1_SingleDelivery ==
    /\ [](\A k \in Ids :
            /\ winners[k] <= 1
            /\ winners[k] = 1 => k \notin DOMAIN memory_cache)
    /\ [][\A c \in Clients, k \in Ids :
            (winners[k] = 1 /\ FetchOrDelete(c, k))
                => /\ calls'[c] = Done(RespError("NotFound"))
                   /\ winners'[k] = 1
                   /\ memory_cache' = memory_cache]_vars

\* A record was removed by one call, a later call on an identifier got
\* NotFound, and the other identifier still holds a record.
C1_Witness ==
    /\ winners["u1"] = 1
    /\ calls["c1"].pc = "log" /\ calls["c1"].op = "get" /\ calls["c1"].key = "u1"
    /\ calls["c2"] = Done(RespError("NotFound"))
    /\ "u2" \in DOMAIN memory_cache

\* The caller holds the plaintext of the record that was stored under key.
Delivered(c, key) == calls[c].resp.kind = "secret" /\ calls[c].resp.of = key

\* C2 (at-most-once retrieval is permanent): over a whole execution, further
\* Creates included, an identifier yields plaintext on at most one Fetch: no two
\* callers ever hold plaintext fetched under the same identifier.
C2_AtMostOnceRetrieval ==
    \A k \in Ids : \A c, d \in Clients :
        (Delivered(c, k) /\ Delivered(d, k)) => c = d

\* C3 (expiry precedence): a Fetch evaluated at a time later than the record's
\* expires_at, the sweeper having run or not, ends at once with Expired when the
\* record is still present and with NotFound when it is absent, so it never
\* returns plaintext.
C3_ExpiryPrecedence ==
    [][\A c \in Clients, k \in Ids :
          (/\ k \in DOMAIN memory_cache => now > memory_cache[k].expires_at
           /\ get_secret(c, k))
             => calls'[c] = Done(RespError(IF k \in DOMAIN memory_cache
                                             THEN "Expired" ELSE "NotFound"))]_vars

\* At the end of the clock a Fetch has been refused as Expired for a record
\* that no sweeper pass had removed.
C3_Witness ==
    /\ now = MaxTime
    /\ \E c \in Clients : calls[c] = Done(RespError("Expired"))
    /\ \E k \in Ids : removedBy[k] = "get_expired"
    /\ \A k \in Ids : removedBy[k] # "sweep"

\* C4 (Fetch consumes an expired record): a Fetch that reports Expired has
\* removed the identifier from the store, and every Fetch or Delete on that
\* identifier after it reports NotFound (never Expired again, never plaintext)
\* for as long as no Create stores a record under the identifier again.
C4_ExpiredFetchConsumes ==
    /\ [](\A k \in Ids : removedBy[k] = "get_expired" => k \notin DOMAIN memory_cache)
    /\ [][\A c \in Clients, k \in Ids :
            (calls'[c] = Done(RespError("Expired")) /\ get_secret(c, k))
                => /\ k \in DOMAIN memory_cache
                   /\ k \notin DOMAIN memory_cache'
                   /\ removedBy'[k] = "get_expired"]_vars
    /\ [][\A c \in Clients, k \in Ids :
            (removedBy[k] = "get_expired" /\ FetchOrDelete(c, k))
                => calls'[c] = Done(RespError("NotFound"))]_vars

\* A Fetch reported Expired and a later call on an identifier got NotFound.
C4_Witness ==
    /\ removedBy["u1"] = "get_expired"
    /\ calls["c1"] = Done(RespError("Expired"))
    /\ calls["c2"] = Done(RespError("NotFound"))
    /\ removedBy["u2"] = "none" /\ "u2" \notin DOMAIN memory_cache

\* C5 (the gate leaves the record intact on denial): a Delete on a record
\* created with a passphrase (the empty string included, as in C6), with
\* another value supplied, fails with PassphraseMismatch and leaves the store
\* as it was; the record is then still deletable with its passphrase and,
\* before expiry, still fetchable.
\* (A stored "" is falsy in the gate, so the Delete goes through.)
C5_DenialLeavesRecord ==
    [][\A c \in Clients :
          calls'[c] # calls[c] =>
            \A k \in DOMAIN memory_cache :
              memory_cache[k].passphrase # None =>
                \A p \in Passphrases \ {memory_cache[k].passphrase} :
                  delete_secret(c, k, p)
                    => /\ calls'[c] = Done(RespError("PassphraseMismatch"))
                       /\ memory_cache' = memory_cache
                       /\ winners' = winners
                       /\ DeleteOutcome(memory_cache', k, memory_cache[k].passphrase)
                            = "ok"
                       /\ now' <= memory_cache[k].expires_at
                            => GetOutcome(memory_cache', k, now') = "ok"]_vars

\* C6 (access-gate decision): for every stored passphrase and every supplied
\* value, each possibly absent or empty, a Delete on a present record passes the
\* gate exactly when the record was created with no passphrase or the supplied
\* value equals the stored one.
C6_GateDecision ==
    [][\A c \in Clients, k \in Ids, p \in Passphrases :
          (k \in DOMAIN memory_cache /\ delete_secret(c, k, p))
             => (calls'[c].pc = "log"
                   <=> (memory_cache[k].passphrase = None
                          \/ memory_cache[k].passphrase = p))]_vars

\* C7 (round trip): a Fetch of a record that is present and not past its
\* expires_at, as right after Create(P, ttl), returns exactly P.
C7_RoundTrip ==
    /\ [][\A c \in Clients, k \in Ids :
            (/\ k \in DOMAIN memory_cache
             /\ now <= memory_cache[k].expires_at
             /\ get_secret(c, k))
               => calls'[c] = Awaiting("get", k, memory_cache[k].secret)]_vars
    /\ [][\A c \in Clients :
            (calls[c].pc = "log" /\ calls[c].op = "get" /\ calls'[c] # calls[c])
               => \E body \in Bodies :
                     /\ calls[c].data = fernet_encrypt(encode(body.secret))
                     /\ calls'[c] = Done(RespSecret(calls[c].key, body.secret))]_vars

\* C8 (ttl constraint): every record Create stores has expires_at strictly
\* later than the time of its creation, and now + 3600 when ttl is left out.
C8_TtlPositive ==
    [][\A c \in Clients, k \in Ids, body \in Bodies :
          (create_secret(c, k, body) /\ calls'[c].pc = "log")
             => /\ memory_cache'[k].expires_at > now
                /\ "ttl_seconds" \notin DOMAIN body
                     => memory_cache'[k].expires_at = now + 3600]_vars

\* C9 (audit failure never aborts): when log_action fails, the operation still
\* ends with its normal outcome: the identifier, the plaintext, or ok.
C9_AuditFailureNotSurfaced ==
    [][\A c \in Clients :
          log_action_raises(c) => calls'[c] = Done(Resume(calls[c]))]_vars

\* C10 (a slow audit sink never stalls): every Create, Fetch and Delete that
\* waits for its audit call eventually returns to the caller, whether or not
\* the audit call completes.
C10_NoStallOnAudit ==
    \A c \in Clients : (calls[c].pc = "log") ~> (calls[c].pc = "done")

\* C11: create_secret always stores under an identifier that is neither in
\* the store nor was ever used before, so a Create never overwrites a live
\* record and never revives a removed identifier, and a record in the store
\* keeps the ciphertext, passphrase and expires_at it was created with.
\* (uuid4() is not checked against memory_cache and nothing retries.)
C11_FreshIdentifier ==
    [][\A c \in Clients, k \in Ids, body \in Bodies :
          (create_secret(c, k, body) /\ calls'[c].pc = "log") =>
              /\ k \notin DOMAIN memory_cache
              /\ removedBy[k] = "none"
              /\ \A j \in DOMAIN memory_cache : memory_cache'[j] = memory_cache[j]]_vars

\* A record the clock of the model can pass: its expires_at is before the
\* last instant.
Perishable(k) ==
    k \in DOMAIN memory_cache /\ memory_cache[k].expires_at < MaxTime

\* C12: under a fair scheduler (the clock advances, the sweeper gets its
\* passes) a record that nobody fetches or deletes does not stay: a pass that
\* starts after its expires_at removes it, so the store ends up free of every
\* record whose expires_at the clock passes; the sweeper never stops.
C12_AbandonedPurged ==
    /\ \A k \in Ids : Perishable(k) ~> ~Perishable(k)
    /\ [](sweeper = "running")
    /\ [][cleanup_expired =>
            \A k \in DOMAIN memory_cache :
                now > memory_cache[k].expires_at => k \notin DOMAIN memory_cache']_vars

\* Both identifiers held records that were left alone, and sweeper passes
\* removed them; the store is empty again.
C12_Witness ==
    /\ now = MaxTime
    /\ DOMAIN memory_cache = {}
    /\ \A k \in Ids : removedBy[k] = "sweep"

\* A value is a Fernet token: the output of fernet.encrypt for the bytes of
\* some payload, which is neither that payload nor its bytes.
IsFernetToken(v) ==
    /\ v[1] = "fernet"
    /\ \E body \in Bodies : v = fernet_encrypt(encode(body.secret))

\* C13: no plaintext at rest. A Create stores fernet.encrypt of its payload,
\* never the payload; a stored record keeps that field until it is removed;
\* what a suspended Fetch carries is still the ciphertext, and a plaintext
\* appears only in the return of a Fetch that had popped the record before
\* its await.
C13_NoPlaintextAtRest ==
    /\ [](/\ \A k \in DOMAIN memory_cache : IsFernetToken(memory_cache[k].secret)
          /\ \A c \in Clients :
                calls[c].pc = "log" /\ calls[c].op = "get"
                    => IsFernetToken(calls[c].data))
    /\ [][/\ \A k \in DOMAIN memory_cache' :
                (k \notin DOMAIN memory_cache \/ memory_cache'[k] # memory_cache[k]) =>
                    /\ \E c \in Clients :
                          CanCall(c) /\ calls'[c] = Awaiting("create", k, None)
                    /\ \E body \in Bodies :
                          /\ memory_cache'[k] = NewRecord(SecretCreate(body), now)
                          /\ memory_cache'[k].secret
                                 = fernet_encrypt(encode(body.secret))
          /\ \A c \in Clients :
                calls'[c].resp.kind = "secret" /\ calls[c].resp.kind # "secret" =>
                    /\ calls[c].pc = "log" /\ calls[c].op = "get"
                    /\ calls'[c].resp.val = decode(fernet_decrypt(calls[c].data))
          /\ \A c \in Clients :
                calls'[c].pc = "log" /\ calls'[c].op = "get" /\ calls[c].pc # "log" =>
                    /\ get_secret(c, calls'[c].key)
                    /\ calls'[c].key \notin DOMAIN memory_cache']_vars

\* A passphrase-protected record sits in the store as ciphertext while a Fetch
\* of the other identifier has returned its plaintext.
C13_Witness ==
    /\ "u1" \in DOMAIN memory_cache
    /\ memory_cache["u1"].secret = fernet_encrypt(encode("x"))
    /\ calls["c1"] = Done(RespSecret("u2", "hello"))

\* C14: one sweeper pass at time now removes every record with
\* expires_at < now, removes no record with expires_at >= now, and leaves
\* the ciphertext, passphrase and expires_at of the survivors as they were.
C14_SweepExactness ==
    [][cleanup_expired =>
          \A k \in DOMAIN memory_cache :
              /\ memory_cache[k].expires_at < now => k \notin DOMAIN memory_cache'
              /\ memory_cache[k].expires_at >= now =>
                    /\ k \in DOMAIN memory_cache'
                    /\ memory_cache'[k] = memory_cache[k]]_vars

\* A pass has removed the record of u1, and the record of u2, which expires at
\* this very instant, is in the store.
C14_Witness ==
    /\ removedBy["u1"] = "sweep"
    /\ "u1" \notin DOMAIN memory_cache
    /\ "u2" \in DOMAIN memory_cache
    /\ memory_cache["u2"].expires_at = now

\* C15: Fetch is not passphrase-gated. A Fetch on a present record that is
\* not past expires_at removes it and returns its plaintext to the caller,
\* whatever passphrase the record was created with; get_secret takes no
\* passphrase, and no Fetch ends in PassphraseMismatch.
\* (The Fetch has removed the record when log_action raises: the caller gets
\* a 500 and no plaintext.)
C15_FetchNotGated ==
    [][\A c \in Clients :
          /\ (CanCall(c) /\ calls'[c] # calls[c]) =>
                \A k \in Ids :
                    get_secret(c, k) =>
                        /\ calls'[c].resp.kind # "PassphraseMismatch"
                        /\ (k \in DOMAIN memory_cache
                              /\ now <= memory_cache[k].expires_at) =>
                              /\ k \notin DOMAIN memory_cache'
                              /\ calls'[c] = Awaiting("get", k, memory_cache[k].secret)
          /\ (calls[c].pc = "log" /\ calls[c].op = "get" /\ calls'[c] # calls[c]) =>
                calls'[c] = Done(RespSecret(calls[c].key,
                                            decode(fernet_decrypt(calls[c].data))))]_vars

\* C16: the store holds only a digest of the passphrase. For every record
\* created with a passphrase, the passphrase field kept in memory_cache is
\* not the value the caller supplied.
\* (create_secret stores data.passphrase itself.)
C16_PassphraseDigestOnly ==
    \A k \in DOMAIN memory_cache :
        memory_cache[k].passphrase # None =>
            memory_cache[k].passphrase \notin Passphrases

\* C17: Delete ignores expiry. What a Delete does is fixed by the presence of
\* the record and by the gate alone, never by the clock: NotFound for a
\* missing identifier, PassphraseMismatch when the gate denies, and otherwise
\* the record is removed and the call reports ok, also when the record is past
\* expires_at and was not yet swept or fetched; a Delete never ends otherwise.
\* (The Delete has removed the record when log_action raises: the caller
\* gets a 500, which is none of the three outcomes.)
C17_DeleteIgnoresExpiry ==
    [][\A c \in Clients :
          /\ (CanCall(c) /\ calls'[c] # calls[c]
                /\ calls'[c].op \in {"delete", "none"}) =>
                \A k \in (IF calls'[c].pc = "log" THEN {calls'[c].key} ELSE Ids),
                   p \in Passphrases :
                    delete_secret(c, k, p) =>
                        IF k \notin DOMAIN memory_cache
                          THEN calls'[c] = Done(RespError("NotFound"))
                        ELSE IF GateDenies(memory_cache[k], p)
                          THEN calls'[c] = Done(RespError("PassphraseMismatch"))
                        ELSE /\ k \notin DOMAIN memory_cache'
                             /\ calls'[c] = Awaiting("delete", k, None)
          /\ (calls[c].pc = "log" /\ calls[c].op = "delete" /\ calls'[c] # calls[c]) =>
                calls'[c] = Done(RespDeleted(calls[c].key))]_vars

\* The instants around the expiry of a record, and the present one.
TimesAround(rec) == {rec.expires_at - 1, rec.expires_at, rec.expires_at + 1, now}

C19_PopsFindTheirKey ==
    /\ [](sweeper = "running")
    /\ [][/\ \A c \in Clients :
                (CanCall(c) /\ calls'[c] # calls[c]) =>
                    /\ calls'[c] = Done(RespServerError) =>
                          \A k \in Ids, p \in Passphrases : ~delete_secret(c, k, p)
                    /\ (calls'[c].pc = "log" /\ calls'[c].op = "delete") =>
                          /\ ~PopRaises(memory_cache, calls'[c].key)
                          /\ calls'[c].key \notin DOMAIN memory_cache'
          /\ cleanup_expired =>
                \A k \in ToDelete(memory_cache, now) :
                    ~PopRaises(memory_cache, k) /\ k \notin DOMAIN memory_cache']_vars

\* Operations raced for records: a Delete removed the record of u1 and is in
\* its await, a sweeper pass removed the record of u2, and the other caller's
\* request, arriving after a removal, got NotFound.
C19_Witness ==
    /\ calls["c1"].pc = "log" /\ calls["c1"].op = "delete" /\ calls["c1"].key = "u1"
    /\ removedBy["u1"] \in {"delete", "delete_expired"}
    /\ removedBy["u2"] = "sweep"
    /\ calls["c2"] = Done(RespError("NotFound"))
    /\ sweeper = "running"

\* The request of caller c returned after its audit event for identifier key
\* (action "retrieved" or "deleted") was inserted.
Logged(c, key) ==
    /\ calls[c].pc = "done"
    /\ calls[c].resp.kind \in {"secret", "deleted"}
    /\ calls[c].resp.of = key

\* C20: the audit trail matches the removals. Over an execution each
\* identifier gets at most one event of {retrieved, deleted}; a call logs it
\* only after it removed the record of that identifier; a Fetch answering
\* NotFound or Expired, a Delete answering NotFound or PassphraseMismatch and
\* the sweeper log nothing.
\* (An identifier that uuid4() returns again gets a second record, and the
\* call removing it logs a second event.)
C20_AuditMatchesRemovals ==
    /\ [](\A k \in Ids : \A c1, c2 \in Clients :
              Logged(c1, k) /\ Logged(c2, k) => c1 = c2)
    /\ [][/\ \A c \in Clients :
                (calls'[c].pc = "log" /\ calls'[c].op \in {"get", "delete"}
                   /\ calls[c].pc # "log") =>
                    /\ calls'[c].key \in DOMAIN memory_cache
                    /\ calls'[c].key \notin DOMAIN memory_cache'
          /\ \A c \in Clients :
                (calls'[c] # calls[c]
                   /\ calls'[c].resp.kind \in {"NotFound", "Expired", "PassphraseMismatch"}) =>
                    calls[c].pc # "log"
          /\ cleanup_expired => calls' = calls]_vars

====
